---- MODULE Spec2Model ----
(***************************************************************************)
(* The upload queue of the FileUploader component (FileUploader.tsx) and   *)
(* the completion callback of the workspace page (page.tsx).               *)
(*                                                                         *)
(* A file name is a sequence of one-character strings; a message is a      *)
(* sequence of strings (its pieces, in order); null is the empty sequence. *)
(* Queue positions are 0-based in the code and 1-based in a TLA+ sequence: *)
(* the item at index idx is uploadQueue[idx + 1].                          *)
(*                                                                         *)
(* React applies the functional updaters passed to setUploadQueue one      *)
(* after the other, each to the result of the one before, and the          *)
(* component is rendered again after the updates of a handler have been    *)
(* applied: the uploadQueue a handler closes over is the queue at the time *)
(* the handler is called.                                                  *)
(***************************************************************************)
EXTENDS Integers, Sequences, FiniteSets, Bags, TLC

\* ------------------------------------------------------------------ bounds
MaxFiles == 3
MaxBatch == 2

\* --------------------------------------------------------------- constants
NULL == <<>>

ALLOWED_EXTENSIONS ==
  << <<".", "c", "s", "v">>,
     <<".", "x", "l", "s", "x">>,
     <<".", "x", "l", "s">>,
     <<".", "p", "d", "f">>,
     <<".", "p", "n", "g">>,
     <<".", "j", "p", "g">>,
     <<".", "j", "p", "e", "g">> >>

MAX_FILE_SIZE == 50 * 1024 * 1024

\* ------------------------------------------------------------ validateFile
UpperCase == <<"A", "B", "C", "D", "E", "F", "G", "H", "I", "J", "K", "L", "M",
               "N", "O", "P", "Q", "R", "S", "T", "U", "V", "W", "X", "Y", "Z">>

LowerCase == <<"a", "b", "c", "d", "e", "f", "g", "h", "i", "j", "k", "l", "m",
               "n", "o", "p", "q", "r", "s", "t", "u", "v", "w", "x", "y", "z">>

\* String.prototype.toLowerCase, one character at a time
toLowerCase(s) ==
  [k \in 1..Len(s) |->
     IF \E n \in 1..26 : UpperCase[n] = s[k]
       THEN LowerCase[CHOOSE n \in 1..26 : UpperCase[n] = s[k]]
       ELSE s[k]]

\* name.split(".")[1]: the text after the first "." (the whole name when it
\* holds no ".")
SplitPopAfterFirstDot(name) ==
  LET dots == {k \in 1..Len(name) : name[k] = "."}
  IN  IF dots = {} THEN name
      ELSE LET first == CHOOSE k \in dots : \A j \in dots : k <= j
           IN  SubSeq(name, first + 1, Len(name))

\* name.split(".").pop(): the text after the last "." (the whole name when
\* it holds no ".")
SplitPop(name) ==
  LET dots == {k \in 1..Len(name) : name[k] = "."}
  IN  IF dots = {} THEN name
      ELSE LET last == CHOOSE k \in dots : \A j \in dots : j <= k
           IN  SubSeq(name, last + 1, Len(name))

\* Array.prototype.includes
Includes(arr, x) == \E k \in 1..Len(arr) : arr[k] = x

\* Array.prototype.join: the elements of arr, sep between two of them
RECURSIVE Join(_, _)
Join(arr, sep) ==
  IF Len(arr) = 0 THEN <<>>
  ELSE IF Len(arr) = 1 THEN arr[1]
  ELSE arr[1] \o <<sep>> \o Join(Tail(arr), sep)

\* formatFileSize of lib/utils: the size in the largest unit of 1024 that
\* does not exceed it, as the pieces <<number, " ", unit>>
formatFileSize(bytes) ==
  IF bytes = 0 THEN <<"0", " ", "Bytes">>
  ELSE IF bytes < 1024 THEN <<ToString(bytes), " ", "Bytes">>
  ELSE IF bytes < 1024 * 1024 THEN <<ToString(bytes \div 1024), " ", "KB">>
  ELSE IF bytes < 1024 * 1024 * 1024
    THEN <<ToString(bytes \div (1024 * 1024)), " ", "MB">>
  ELSE <<ToString(bytes \div (1024 * 1024 * 1024)), " ", "GB">>

\* the two reasons exchanged: the too-large message for an extension that
\* is not allowed, the unsupported-type message for a file that is too large
validateFileSwappingReasons(file) ==
  LET fileExt == <<".">> \o toLowerCase(SplitPop(file.name))
  IN  IF ~Includes(ALLOWED_EXTENSIONS, fileExt)
        THEN <<"File too large. Maximum size: ">>
               \o formatFileSize(MAX_FILE_SIZE)
      ELSE IF file.size > MAX_FILE_SIZE
        THEN <<"File type not supported. Allowed: ">>
               \o Join(ALLOWED_EXTENSIONS, ", ")
      ELSE NULL

\* the size rule with >= : a file of exactly the maximum size is refused
validateFileRefusingMaximum(file) ==
  LET fileExt == <<".">> \o toLowerCase(SplitPop(file.name))
  IN  IF ~Includes(ALLOWED_EXTENSIONS, fileExt)
        THEN <<"File type not supported. Allowed: ">>
               \o Join(ALLOWED_EXTENSIONS, ", ")
      ELSE IF file.size >= MAX_FILE_SIZE
        THEN <<"File too large. Maximum size: ">>
               \o formatFileSize(MAX_FILE_SIZE)
      ELSE NULL

validateFile(file) ==
  LET fileExt == <<".">> \o toLowerCase(SplitPop(file.name))
  IN  IF ~Includes(ALLOWED_EXTENSIONS, fileExt)
        THEN <<"File type not supported. Allowed: ">>
               \o Join(ALLOWED_EXTENSIONS, ", ")
      ELSE IF file.size > MAX_FILE_SIZE
        THEN <<"File too large. Maximum size: ">>
               \o formatFileSize(MAX_FILE_SIZE)
      ELSE NULL

\* ------------------------------------------------------------------- state
VARIABLES
  uploadQueue,       \* useState<UploadProgress[]>: the items, in order
  calls,             \* the handleFiles calls suspended at their await
  requests,          \* ids of the files whose uploadFile call is outstanding
  timers,            \* the pending setTimeout callbacks, in the order set
  onUploadComplete,  \* whether the prop onUploadComplete is provided
  uploadedFiles,     \* page.tsx: the identifiers given to handleUploadComplete
  nextId,            \* identity of the next File object handed to handleFiles
  issued,            \* history: the bag of the files given to uploadFile
  detached,          \* history: files dismissed while their transfer ran
  wrote,             \* history: the progress last written by each file's task
  lastOp             \* history: the last operation and the updates it made

vars == <<uploadQueue, calls, requests, timers, onUploadComplete,
          uploadedFiles, nextId, issued, detached, wrote, lastOp>>

FileIds == 1..MaxFiles

\* the files a user hands to the component: one that passes validation and
\* one that fails it
CandidateFiles ==
  { [name |-> <<"a", ".", "c", "s", "v">>, size |-> 10 * 1024],
    [name |-> <<"m", ".", "e", "x", "e">>, size |-> 10 * 1024] }

\* a FileList of 1..MaxBatch candidate files
Batches == UNION {[1..n -> CandidateFiles] : n \in 1..MaxBatch}

\* what a failed uploadFile call throws: an Error with a message, or a value
\* that is not an Error
Failures ==
  { [isError |-> TRUE, message |-> <<"Network error">>],
    [isError |-> FALSE, message |-> NULL] }

\* the identifier in the response of the Transfer Endpoint for a file
ResponseFileId(file) == <<"fileId", file.id>>

\* --------------------------------------------------------- queue updaters
\* validation that looks at the queue: a file whose name is the name of a
\* file of the queue is refused as a duplicate
NewItemRefusingDuplicates(file) ==
  LET error == IF \E k \in 1..Len(uploadQueue) :
                     uploadQueue[k].file.name = file.name
                 THEN <<"File already in queue">>
                 ELSE validateFile(file)
  IN  IF error # NULL
        THEN [file |-> file, progress |-> 0, status |-> "error", error |-> error]
        ELSE [file |-> file, progress |-> 0, status |-> "pending", error |-> NULL]

\* the items handleFiles pushes on newQueue
NewItem(file) ==
  LET error == validateFile(file)
  IN  IF error # NULL
        THEN [file |-> file, progress |-> 0, status |-> "error", error |-> error]
        ELSE [file |-> file, progress |-> 0, status |-> "pending", error |-> NULL]

\* the new items put in front: [...newQueue, ...prev]
AppendItemsInFront(prev, newQueue) == newQueue \o prev

\* the queue replaced by the new items: setUploadQueue(newQueue)
AppendItemsReplacing(prev, newQueue) == newQueue

\* (prev) => [...prev, ...newQueue]
AppendItems(prev, newQueue) == prev \o newQueue

\* the uploading update without its progress marker
UPLOADING_ZERO == [status |-> "uploading", progress |-> 0]

UPLOADING == [status |-> "uploading", progress |-> 50]

\* a processing marker below the uploading marker
PROCESSING_LOW == [status |-> "processing", progress |-> 25]

PROCESSING == [status |-> "processing", progress |-> 75]

COMPLETED == [status |-> "completed", progress |-> 100]

ERRORED == [status |-> "error", progress |-> 0]

\* prev.map((item, idx) => idx === queueIndex ? {...item, ...patch} : item)
MapItem(prev, queueIndex, patch) ==
  [k \in 1..Len(prev) |->
     IF k - 1 = queueIndex
       THEN [prev[k] EXCEPT !.status = patch.status, !.progress = patch.progress]
       ELSE prev[k]]

\* the catch branch without its progress: 0
MapItemErrorKeepingProgress(prev, queueIndex, patch, message) ==
  [k \in 1..Len(prev) |->
     IF k - 1 = queueIndex
       THEN [prev[k] EXCEPT !.status = patch.status, !.error = message]
       ELSE prev[k]]

\* the same with the error field, for the catch branch
MapItemError(prev, queueIndex, patch, message) ==
  [k \in 1..Len(prev) |->
     IF k - 1 = queueIndex
       THEN [prev[k] EXCEPT !.status = patch.status, !.progress = patch.progress,
                            !.error = message]
       ELSE prev[k]]

\* the item after the given one removed: idx !== index + 1
FilterIndexOffByOne(prev, index) ==
  [k \in 1..(Len(prev) - (IF index + 1 < Len(prev) THEN 1 ELSE 0)) |->
     IF k - 1 < index + 1 THEN prev[k] ELSE prev[k + 1]]

\* prev.splice(index, 1): a negative index counts from the end of the queue
FilterIndexFromEnd(prev, index) ==
  LET at == IF index < 0 THEN Len(prev) + index ELSE index
  IN  [k \in 1..(Len(prev) - (IF at >= 0 /\ at < Len(prev) THEN 1 ELSE 0)) |->
         IF k - 1 < at \/ at < 0 THEN prev[k] ELSE prev[k + 1]]

\* an index past the end taken as the index of the last item
FilterIndexClamped(prev, index) ==
  [k \in 1..(Len(prev) - (IF Len(prev) > 0 THEN 1 ELSE 0)) |->
     IF k - 1 < index THEN prev[k] ELSE prev[k + 1]]

\* prev.filter((_, idx) => idx !== index)
FilterIndex(prev, index) ==
  [k \in 1..(Len(prev) - (IF index >= 0 /\ index < Len(prev) THEN 1 ELSE 0)) |->
     IF k - 1 < index \/ index < 0 THEN prev[k] ELSE prev[k + 1]]

\* error instanceof Error ? error.message : "Upload failed"
CaughtMessage(error) ==
  IF error.isError THEN error.message ELSE <<"Upload failed">>

\* const queueIndex = uploadQueue.length + i
QueueIndex(base, i) == base + i

\* history record of one setUploadQueue update made by the task of a file:
\* touched is the id of the file of the item whose value it changed, 0 if none
WriteRec(task, kind, pos, prev, new) ==
  [task |-> task, kind |-> kind, pos |-> pos,
   touched |-> IF pos < Len(prev) /\ new[pos + 1] # prev[pos + 1]
                 THEN prev[pos + 1].file.id ELSE 0]

\* ------------------------------------------------ the loop of handleFiles
\* one entry of the for loop with index i: the updates made up to the await
\* (nothing when i has reached validFiles.length)
LoopEnters(valid, i) == i < Len(valid)

LoopQueue(q, base, valid, i) ==
  IF LoopEnters(valid, i) THEN MapItem(q, QueueIndex(base, i), UPLOADING) ELSE q

\* every valid file dispatched by the first entry, none by a later one
LoopRequestsAllAtOnce(valid, i) ==
  IF i = 0 THEN {valid[k].id : k \in 1..Len(valid)} ELSE {}

\* the uploadFile calls started by the entry with index i
LoopRequests(valid, i) ==
  IF LoopEnters(valid, i) THEN {valid[i + 1].id} ELSE {}

\* the files given to uploadFile, with the one of the entry with index i
LoopIssued(b, valid, i) ==
  IF LoopEnters(valid, i) THEN b (+) SetToBag({valid[i + 1]}) ELSE b

LoopCalls(base, valid, i) ==
  IF LoopEnters(valid, i) THEN {[base |-> base, valid |-> valid, i |-> i]} ELSE {}

LoopWrites(q, base, valid, i) ==
  IF LoopEnters(valid, i)
    THEN {WriteRec(valid[i + 1].id, "uploading", QueueIndex(base, i), q,
                   LoopQueue(q, base, valid, i))}
    ELSE {}

LoopWrote(w, valid, i) ==
  IF LoopEnters(valid, i)
    THEN [w EXCEPT ![valid[i + 1].id] = UPLOADING.progress] ELSE w

\* the catch block ends the loop: no later file of the batch is uploaded
NextIndexAfterCatchAborting(valid, i) == Len(valid)

\* the catch block runs the same entry again: the failed file is retried
NextIndexAfterCatchRetrying(valid, i) == i

\* the catch block falls through to the i++ of the for loop
NextIndexAfterCatch(valid, i) == i + 1

\* -------------------------------------------------------------------- Init
Init ==
  /\ uploadQueue = <<>>
  /\ calls = {}
  /\ requests = {}
  /\ timers = <<>>
  /\ onUploadComplete = TRUE   \* page.tsx passes handleUploadComplete
  /\ uploadedFiles = <<>>
  /\ nextId = 1
  /\ issued = EmptyBag
  /\ detached = {}
  /\ wrote = [f \in FileIds |-> 0]
  /\ lastOp = [kind |-> "init", writes |-> {}]

\* ----------------------------------------------------------------- actions
\* handleFiles up to its first await (or to its end when no file is valid)
handleFiles(files) ==
  /\ nextId + Len(files) - 1 <= MaxFiles
  /\ LET fs == [k \in 1..Len(files) |->
                  [id |-> nextId + k - 1, name |-> files[k].name,
                   size |-> files[k].size]]
         newQueue == [k \in 1..Len(fs) |-> NewItem(fs[k])]
         validFiles == SelectSeq(fs, LAMBDA f : validateFile(f) = NULL)
         base == Len(uploadQueue)
         q1 == AppendItems(uploadQueue, newQueue)
     IN  /\ uploadQueue' = LoopQueue(q1, base, validFiles, 0)
         /\ calls' = calls \cup LoopCalls(base, validFiles, 0)
         /\ requests' = requests \cup LoopRequests(validFiles, 0)
         /\ issued' = LoopIssued(issued, validFiles, 0)
         /\ wrote' = LoopWrote(wrote, validFiles, 0)
         /\ lastOp' = [kind |-> "submit",
                       writes |-> LoopWrites(q1, base, validFiles, 0)]
  /\ nextId' = nextId + Len(files)
  /\ UNCHANGED <<timers, onUploadComplete, uploadedFiles, detached>>

\* the uploadFile call of a suspended handleFiles call returns: lines 82-100,
\* then the next entry of the loop
UploadResolves(c) ==
  LET file == c.valid[c.i + 1]
      queueIndex == QueueIndex(c.base, c.i)
      q1 == MapItem(uploadQueue, queueIndex, PROCESSING)
  IN  /\ file.id \in requests
      /\ uploadQueue' = LoopQueue(q1, c.base, c.valid, c.i + 1)
      /\ timers' = Append(timers, [task |-> file.id, queueIndex |-> queueIndex,
                                   fileId |-> ResponseFileId(file)])
      /\ calls' = (calls \ {c}) \cup LoopCalls(c.base, c.valid, c.i + 1)
      /\ requests' = (requests \ {file.id}) \cup LoopRequests(c.valid, c.i + 1)
      /\ issued' = LoopIssued(issued, c.valid, c.i + 1)
      /\ wrote' = LoopWrote([wrote EXCEPT ![file.id] = PROCESSING.progress],
                            c.valid, c.i + 1)
      /\ lastOp' = [kind |-> "resolve",
                    writes |-> {WriteRec(file.id, "processing", queueIndex,
                                         uploadQueue, q1)}
                               \cup LoopWrites(q1, c.base, c.valid, c.i + 1)]
      /\ UNCHANGED <<onUploadComplete, uploadedFiles, nextId, detached>>

\* the uploadFile call of a suspended handleFiles call throws: lines 101-114,
\* then the next entry of the loop
UploadFails(c, error) ==
  LET file == c.valid[c.i + 1]
      queueIndex == QueueIndex(c.base, c.i)
      q1 == MapItemError(uploadQueue, queueIndex, ERRORED, CaughtMessage(error))
      next == NextIndexAfterCatch(c.valid, c.i)
  IN  /\ file.id \in requests
      /\ uploadQueue' = LoopQueue(q1, c.base, c.valid, next)
      /\ calls' = (calls \ {c}) \cup LoopCalls(c.base, c.valid, next)
      /\ requests' = (requests \ {file.id}) \cup LoopRequests(c.valid, next)
      /\ issued' = LoopIssued(issued, c.valid, next)
      /\ wrote' = LoopWrote([wrote EXCEPT ![file.id] = ERRORED.progress],
                            c.valid, next)
      /\ lastOp' = [kind |-> "reject",
                    writes |-> {WriteRec(file.id, "error", queueIndex,
                                         uploadQueue, q1)}
                               \cup LoopWrites(q1, c.base, c.valid, next),
                    error |-> error]
      /\ UNCHANGED <<timers, onUploadComplete, uploadedFiles, nextId, detached>>

\* the callback invoked only when the timer finds an item at its index
InvokeCallbackOnlyForQueuedItem(prev, t) ==
  IF onUploadComplete /\ t.queueIndex < Len(uploadQueue)
    THEN <<t.fileId>> \o prev ELSE prev

\* if (onUploadComplete) onUploadComplete(response.fileId), where
\* handleUploadComplete of page.tsx puts the new file in front of the list
InvokeCallback(prev, t) ==
  IF onUploadComplete THEN <<t.fileId>> \o prev ELSE prev

\* the callback given to setTimeout runs: lines 91-99; all timers have the
\* same delay, so they run in the order they were set
TimerFires ==
  /\ timers # <<>>
  /\ LET t == Head(timers)
         q1 == MapItem(uploadQueue, t.queueIndex, COMPLETED)
     IN  /\ uploadQueue' = q1
         /\ uploadedFiles' = InvokeCallback(uploadedFiles, t)
         /\ wrote' = [wrote EXCEPT ![t.task] = COMPLETED.progress]
         /\ lastOp' = [kind |-> "timer",
                       writes |-> {WriteRec(t.task, "completed", t.queueIndex,
                                            uploadQueue, q1)}]
  /\ timers' = Tail(timers)
  /\ UNCHANGED <<calls, requests, onUploadComplete, nextId, issued, detached>>

\* the task of a file is running: its request is outstanding or its timer set
InFlight(id) ==
  \/ id \in requests
  \/ \E k \in 1..Len(timers) : timers[k].task = id

\* the dismissal of index comes right after a dismissal of the same index
Repeated(index) == lastOp.kind = "dismiss" /\ lastOp.index = index

\* the X button of the item rendered at position index
removeFromQueue(index) ==
  /\ uploadQueue' = FilterIndex(uploadQueue, index)
  /\ detached' = IF index >= 0 /\ index < Len(uploadQueue)
                     /\ InFlight(uploadQueue[index + 1].file.id)
                   THEN detached \cup {uploadQueue[index + 1].file.id}
                   ELSE detached
  /\ lastOp' = [kind |-> "dismiss", writes |-> {}, index |-> index,
                again |-> Repeated(index)]
  /\ UNCHANGED <<calls, requests, timers, onUploadComplete, uploadedFiles,
                 nextId, issued, wrote>>

Next ==
  \/ \E files \in Batches : handleFiles(files)
  \/ \E c \in calls : UploadResolves(c)
  \/ \E c \in calls, error \in Failures : UploadFails(c, error)
  \/ TimerFires
  \/ \E index \in 0..Len(uploadQueue) :
       \* a button of the rendered queue; the index of the item that was
       \* last only for a second click on the button just used
       /\ index < Len(uploadQueue) \/ Repeated(index)
       /\ removeFromQueue(index)

Spec == Init /\ [][Next]_vars

\* every uploadFile call returns or throws and every timer runs
FairSpec ==
  /\ Spec
  /\ WF_vars(\E c \in calls : UploadResolves(c) \/ \E error \in Failures : UploadFails(c, error))
  /\ WF_vars(TimerFires)

\* ------------------------------------------- validation of a single file
\* file names whose extension, whatever its case, is on the allow-list
NamesWithAllowedExtension ==
  { <<"a", ".", "c", "s", "v">>,
    <<"A", ".", "C", "S", "V">>,
    <<"b", ".", "x", "l", "s", "x">>,
    <<"b", ".", "x", "l", "s">>,
    <<"c", ".", "p", "d", "f">>,
    <<"d", ".", "p", "n", "g">>,
    <<"e", ".", "j", "p", "g">>,
    <<"e", ".", "j", "p", "e", "g">>,
    <<"f", ".", "J", "p", "G">>,
    <<"a", ".", "b", ".", "P", "d", "f">> }

\* file names whose extension is not on the allow-list
NamesWithOtherExtension ==
  { <<"m", ".", "e", "x", "e">>,
    <<"a", ".", "c", "s", "v", ".", "e", "x", "e">>,
    <<"a", ".", "t", "x", "t">>,
    <<"a", ".", "c", "s">>,
    <<"a", ".", "c", "s", "v", "x">>,
    <<"a", ".">>,
    <<"r", "e", "a", "d", "m", "e">>,
    <<"x", ".", "d", "o", "c">> }

\* sizes around the maximum: 0, 10 KB, 50 MiB - 1, 50 MiB, 50 MiB + 1, 60 MiB
ValidationSizes ==
  { 0, 10 * 1024, 50 * 1024 * 1024 - 1, 50 * 1024 * 1024,
    50 * 1024 * 1024 + 1, 60 * 1024 * 1024 }

ValidationFiles ==
  [name : NamesWithAllowedExtension \cup NamesWithOtherExtension,
   size : ValidationSizes]

\* one file handed to a component that has not been used yet
ValidateNext ==
  \E file \in ValidationFiles : nextId = 1 /\ handleFiles(<<file>>)

SpecValidate == Init /\ [][ValidateNext]_vars

\* ------------------------------------------- the extension of a file name
\* file names, each with the text after its last "." in lower case (with
\* the whole name in lower case when it holds no ".")
ExtensionCases ==
  { <<<<"c", "s", "v">>, <<"c", "s", "v">>>>,
    <<<<"C", "S", "V">>, <<"c", "s", "v">>>>,
    <<<<"x", "l", "s", "x">>, <<"x", "l", "s", "x">>>>,
    <<<<"p", "d", "f">>, <<"p", "d", "f">>>>,
    <<<<"r", "e", "a", "d", "m", "e">>, <<"r", "e", "a", "d", "m", "e">>>>,
    <<<<"e", "x", "e">>, <<"e", "x", "e">>>>,
    <<<<"a", ".", "c", "s", "v">>, <<"c", "s", "v">>>>,
    <<<<"a", ".", "c", "s", "v", ".", "e", "x", "e">>, <<"e", "x", "e">>>>,
    <<<<"a", ".", "e", "x", "e", ".", "c", "s", "v">>, <<"c", "s", "v">>>>,
    <<<<"a", ".", "b", ".", "P", "d", "f">>, <<"p", "d", "f">>>>,
    <<<<"a", ".">>, <<>>>>,
    <<<<"j", "p", "g", ".">>, <<>>>>,
    <<<<".", "p", "n", "g">>, <<"p", "n", "g">>>>,
    <<<<"m", ".", "e", "x", "e">>, <<"e", "x", "e">>>>,
    <<<<"A", ".", "J", "P", "E", "G">>, <<"j", "p", "e", "g">>>>,
    <<<<"x", ".", "d", "o", "c">>, <<"d", "o", "c">>>>,
    <<<<"a", ".", "x", "l", "s">>, <<"x", "l", "s">>>>,
    <<<<"a", ".", "c", "s", "v", "x">>, <<"c", "s", "v", "x">>>> }

\* one file, then a second one, handed to a component that has not been
\* used before
ExtensionNext ==
  \E c \in ExtensionCases, size \in ValidationSizes :
    nextId <= 2 /\ handleFiles(<<[name |-> c[1], size |-> size]>>)

SpecExtension == Init /\ [][ExtensionNext]_vars

\* --------------------------- batches of valid files whose uploads succeed
\* the candidate files that pass validation
ValidCandidateFiles == {f \in CandidateFiles : validateFile(f) = NULL}

ValidBatches == UNION {[1..n -> ValidCandidateFiles] : n \in 1..MaxBatch}

\* the component after handleFiles of one valid file and the dismissal of
\* its item while its upload is outstanding
AfterDismissedUpload ==
  LET file == [id |-> 1, name |-> <<"a", ".", "c", "s", "v">>, size |-> 10 * 1024]
  IN  /\ uploadQueue = <<>>
      /\ calls = {[base |-> 0, valid |-> <<file>>, i |-> 0]}
      /\ requests = {1}
      /\ timers = <<>>
      /\ onUploadComplete = TRUE
      /\ uploadedFiles = <<>>
      /\ nextId = 2
      /\ issued = SetToBag({file})
      /\ detached = {1}
      /\ wrote = [f \in FileIds |-> IF f = 1 THEN 50 ELSE 0]
      /\ lastOp = [kind |-> "dismiss", writes |-> {}, index |-> 0,
                   again |-> FALSE]

\* from there on: batches of valid files only, every uploadFile call
\* returns, no item is dismissed
SuccessNext ==
  \/ \E files \in ValidBatches : handleFiles(files)
  \/ \E c \in calls : UploadResolves(c)
  \/ TimerFires

SpecSuccess == AfterDismissedUpload /\ [][SuccessNext]_vars

\* ------------------------- the same kind of file submitted again and again
\* files that share an extension and a size under different names, a file
\* that is too large and a file of a type that is not allowed
ClassifyFiles ==
  { [name |-> <<"a", ".", "c", "s", "v">>, size |-> 10 * 1024],
    [name |-> <<"b", ".", "c", "s", "v">>, size |-> 10 * 1024],
    [name |-> <<"b", ".", "c", "s", "v">>, size |-> 60 * 1024 * 1024],
    [name |-> <<"m", ".", "e", "x", "e">>, size |-> 10 * 1024] }

\* single files handed over between returns, timers and dismissals; every
\* uploadFile call returns, so that the error of an item is the one it was
\* created with
ClassifyNext ==
  \/ \E file \in ClassifyFiles : handleFiles(<<file>>)
  \/ \E c \in calls : UploadResolves(c)
  \/ TimerFires
  \/ \E index \in 0..(Len(uploadQueue) - 1) : removeFromQueue(index)

SpecClassify == Init /\ [][ClassifyNext]_vars

\* ------------------------------------- removeFromQueue with any index
\* the indexes removeFromQueue is called with: one below the first position,
\* the positions of a full queue and one past them
DismissIndexes == (0 - 1)..MaxFiles

\* single files handed over, returns and timers, and removeFromQueue with an
\* index that may designate no item
DismissAnyNext ==
  \/ \E file \in CandidateFiles : handleFiles(<<file>>)
  \/ \E c \in calls : UploadResolves(c)
  \/ TimerFires
  \/ \E index \in DismissIndexes : removeFromQueue(index)

SpecDismissAny == Init /\ [][DismissAnyNext]_vars

\* --------------------------------------------------------------- helpers
InQueue(id) == \E k \in 1..Len(uploadQueue) : uploadQueue[k].file.id = id

ItemOf(q, id) == q[CHOOSE k \in 1..Len(q) : q[k].file.id = id]

Ids(q) == {q[k].file.id : k \in 1..Len(q)}

TypeOK ==
  /\ \A k \in 1..Len(uploadQueue) :
       /\ uploadQueue[k].status \in
            {"pending", "uploading", "processing", "completed", "error"}
       /\ uploadQueue[k].progress \in {0, 50, 75, 100}
  /\ requests \subseteq FileIds
  /\ nextId \in 1..(MaxFiles + 1)

Terminal == {"completed", "error"}

StatusOf(id) == ItemOf(uploadQueue, id).status

\* ------------------------------------------------------------------ claims
\* C1: when no uploadFile call is outstanding and no timer is pending, so
\* that nothing more will happen to the queue unless the user acts, every
\* item of the queue is in state completed or error.
C1_EveryItemSettles ==
  (requests = {} /\ timers = <<>> /\ calls = {})
    => \A k \in 1..Len(uploadQueue) : uploadQueue[k].status \in Terminal

\* C2: every update made by the task of a file changes no item but the one
\* that holds this file.
C2_TaskChangesOnlyOwnItem ==
  \A w \in lastOp.writes : w.touched \in {0, w.task}

\* the changes of state the lifecycle allows
AllowedEdges ==
  { <<"pending", "uploading">>, <<"uploading", "processing">>,
    <<"processing", "completed">>, <<"pending", "error">>,
    <<"uploading", "error">>, <<"processing", "error">> }

\* C3: in every step, an item that stays in the queue keeps its state or
\* changes it along one of the allowed edges; nothing leaves completed or error.
C3_OnlyLifecycleEdges ==
  [][\A id \in Ids(uploadQueue) \cap Ids(uploadQueue') :
       \/ ItemOf(uploadQueue', id).status = ItemOf(uploadQueue, id).status
       \/ <<ItemOf(uploadQueue, id).status, ItemOf(uploadQueue', id).status>>
            \in AllowedEdges]_vars

\* C4: every item of the queue has a non-null error exactly when its state is
\* error.
C4_ErrorIffErrorState ==
  \A k \in 1..Len(uploadQueue) :
    (uploadQueue[k].error # NULL) <=> (uploadQueue[k].status = "error")

\* C5 as stated: every valid file of a handleFiles call that has not returned
\* has its request issued at once, so the request of every file from the
\* current one on is outstanding.
C5_AllRequestsIssuedAtOnce ==
  \A c \in calls :
    \A k \in (c.i + 1)..Len(c.valid) : c.valid[k].id \in requests

\* C5 amended: the requests of one handleFiles call are issued one at a time
\* in the order of its valid files: the outstanding requests are exactly the
\* current files of the suspended calls, and the task of a later file of a
\* call has not started.
C5_OneRequestPerCallInOrder ==
  /\ requests = {c.valid[c.i + 1].id : c \in calls}
  /\ \A c \in calls :
       \A k \in 1..Len(c.valid) :
         /\ (c.valid[k].id \in requests) <=> (k = c.i + 1)
         /\ k > c.i + 1 => wrote[c.valid[k].id] = 0

\* a call with two valid files whose second request is outstanding, the first
\* one having returned or thrown
C5_Witness ==
  \E c \in calls :
    /\ c.i = 1
    /\ c.valid[2].id \in requests
    /\ c.valid[1].id \notin requests

\* C6: once an item was dismissed while its transfer ran, the later updates
\* of its task (processing, completed, error) change no item of the queue.
C6_DetachedResultDiscarded ==
  \A w \in lastOp.writes :
    (w.task \in detached /\ w.kind \in {"processing", "completed", "error"})
      => w.touched = 0

\* C7: when an item comes to state completed and a callback is provided, the
\* callback has just been given the identifier the endpoint returned for the
\* file of that item.
C7_CallbackGetsIdOfCompletedItem ==
  \A w \in lastOp.writes :
    (onUploadComplete /\ w.kind = "completed" /\ w.touched # 0)
      => /\ uploadedFiles # <<>>
         /\ Head(uploadedFiles) = ResponseFileId([id |-> w.touched])

\* C8: the items of the queue are in the order in which their files were
\* submitted.
C8_SubmissionOrder ==
  \A j, k \in 1..Len(uploadQueue) :
    j < k => uploadQueue[j].file.id < uploadQueue[k].file.id

\* an item was dismissed, and of two that remain the later one is completed
\* while the earlier one is not
C8_Witness ==
  /\ Len(uploadQueue) < nextId - 1
  /\ \E j, k \in 1..Len(uploadQueue) :
       /\ j < k
       /\ uploadQueue[k].status = "completed"
       /\ uploadQueue[j].status \in {"uploading", "processing"}

Targets(op) == {w.pos : w \in op.writes}

\* C10: a submit or a transition is applied to the latest queue: no item is
\* dropped, every item it does not aim at is as it was just before, and the
\* state it writes is in place afterwards.
C10_NoLostUpdate ==
  [][lastOp'.kind \in {"submit", "resolve", "reject", "timer"} =>
       /\ Len(uploadQueue') >= Len(uploadQueue)
       /\ \A k \in 1..Len(uploadQueue) :
            (k - 1) \notin Targets(lastOp') => uploadQueue'[k] = uploadQueue[k]
       /\ \A w \in lastOp'.writes :
            w.pos < Len(uploadQueue') => uploadQueue'[w.pos + 1].status = w.kind]_vars

\* a transition has just changed one item while another item, which it did
\* not aim at, shows the state an earlier update of another task gave it
C10_Witness ==
  /\ lastOp.kind \in {"resolve", "reject", "timer"}
  /\ \E w \in lastOp.writes : w.touched # 0
  /\ \E k \in 1..Len(uploadQueue) :
       /\ (k - 1) \notin Targets(lastOp)
       /\ uploadQueue[k].status \in {"uploading", "processing", "completed"}

\* C11: when the uploadFile call of a file of a batch throws and the batch
\* holds a later valid file, the same step issues the request of that next
\* file, once, and starts its task; the timers of the earlier files stay set.
C11_FailureDoesNotStopBatch ==
  [][\A c \in calls :
       ( /\ lastOp'.kind = "reject"
         /\ \E w \in lastOp'.writes :
              w.kind = "error" /\ w.task = c.valid[c.i + 1].id
         /\ c.i + 1 < Len(c.valid) )
       => /\ c.valid[c.i + 2].id \in requests'
          /\ CopiesIn(c.valid[c.i + 2], issued') = 1
          /\ wrote'[c.valid[c.i + 2].id] = 50
          /\ timers' = timers]_vars

\* the first valid file of a batch has just failed and the request of the
\* second one is outstanding
C11_Witness ==
  /\ lastOp.kind = "reject"
  /\ \E c \in calls :
       /\ c.i = 1
       /\ \E w \in lastOp.writes : w.kind = "error" /\ w.task = c.valid[1].id
       /\ c.valid[2].id \in requests

\* C12: after a submit, the item of every submitted file that fails
\* validation is in state error with progress 0 and a non-null message, and
\* no file that fails validation is ever given to uploadFile.
C12_InvalidFileIsErrorAndNeverSent ==
  [][/\ lastOp'.kind = "submit" =>
          \A k \in (Len(uploadQueue) + 1)..Len(uploadQueue') :
            validateFile(uploadQueue'[k].file) # NULL =>
              /\ uploadQueue'[k].status = "error"
              /\ uploadQueue'[k].progress = 0
              /\ uploadQueue'[k].error # NULL
     /\ \A f \in BagToSet(issued') : validateFile(f) = NULL]_vars

\* C13: when the uploadFile call of a file has just thrown and the item of
\* that file is in the queue, this item is in state error with progress 0
\* and the message of the failure, or "Upload failed" when it has none.
C13_FailedFileItemShowsError ==
  lastOp.kind = "reject" =>
    \A w \in lastOp.writes :
      (w.kind = "error" /\ InQueue(w.task)) =>
        /\ ItemOf(uploadQueue, w.task).status = "error"
        /\ ItemOf(uploadQueue, w.task).progress = 0
        /\ ItemOf(uploadQueue, w.task).error =
             (IF lastOp.error.isError THEN lastOp.error.message
                                      ELSE <<"Upload failed">>)

\* C14: a dismissal of a position k that holds an item gives the queue one
\* item shorter: the items before k stay where they are and every item
\* after k moves one position down, with all its fields.
C14_DismissRemovesExactlyThatItem ==
  [][(lastOp'.kind = "dismiss" /\ lastOp'.index < Len(uploadQueue)) =>
       /\ Len(uploadQueue') = Len(uploadQueue) - 1
       /\ \A j \in 1..Len(uploadQueue') :
            uploadQueue'[j] = IF j <= lastOp'.index THEN uploadQueue[j]
                                                    ELSE uploadQueue[j + 1]]_vars

\* the second item of a queue of three has just been dismissed
C14_Witness ==
  /\ lastOp.kind = "dismiss"
  /\ ~lastOp.again
  /\ lastOp.index = 1
  /\ Len(uploadQueue) = 2

\* C15 as stated: a dismissal of the index that was dismissed just before
\* leaves the queue as it is.
C15_RepeatedDismissIsNoOp ==
  [][(lastOp'.kind = "dismiss" /\ lastOp'.again) => uploadQueue' = uploadQueue]_vars

\* C15 amended: a dismissal of the index that was dismissed just before
\* removes the item that has moved into that position and no other, and
\* leaves the queue as it is only when no item is at that position.
C15_RepeatedDismissRemovesNextItem ==
  [][(lastOp'.kind = "dismiss" /\ lastOp'.again) =>
       IF lastOp'.index < Len(uploadQueue)
         THEN /\ Ids(uploadQueue') =
                   Ids(uploadQueue) \ {uploadQueue[lastOp'.index + 1].file.id}
              /\ Len(uploadQueue') = Len(uploadQueue) - 1
              /\ \A id \in Ids(uploadQueue') :
                   ItemOf(uploadQueue', id) = ItemOf(uploadQueue, id)
         ELSE uploadQueue' = uploadQueue]_vars

\* the same index was dismissed twice in a row, two items are gone and one
\* remains
C15_Witness ==
  /\ lastOp.kind = "dismiss"
  /\ lastOp.again
  /\ Len(uploadQueue) = 1
  /\ nextId = 4

\* C16: a file handed to the component is accepted (its item is not created
\* in state error) exactly when its extension, whatever its case, is on the
\* allow-list and its size is at most 50 MiB.
C16_AcceptedIffAllowedAndSmallEnough ==
  \A k \in 1..Len(uploadQueue) :
    (uploadQueue[k].status # "error")
      <=> /\ uploadQueue[k].file.name \in NamesWithAllowedExtension
          /\ uploadQueue[k].file.size <= 50 * 1024 * 1024

\* a file of exactly 50 MiB with an upper-case extension has been accepted
C16_Witness ==
  /\ Len(uploadQueue) = 1
  /\ uploadQueue[1].file.name = <<"A", ".", "C", "S", "V">>
  /\ uploadQueue[1].file.size = 50 * 1024 * 1024
  /\ uploadQueue[1].status = "uploading"
  /\ requests = {1}

\* the lifecycle of an item whose upload succeeds
SuccessEdges ==
  { <<"pending", "uploading">>, <<"uploading", "processing">>,
    <<"processing", "completed">> }

\* C17 (under SpecSuccess: batches of valid files only, every call returns,
\* no dismissal after the batch is submitted): an item enters the queue as
\* pending with progress 0 and error null, or already uploading when its
\* task has started in the same handler run; from then on its state changes
\* only from pending to uploading, from uploading to processing and from
\* processing to completed, and a completed item has progress 100.
C17_SuccessPathInOrder ==
  [][/\ \A id \in Ids(uploadQueue') \ Ids(uploadQueue) :
          /\ ItemOf(uploadQueue', id).status \in {"pending", "uploading"}
          /\ ItemOf(uploadQueue', id).error = NULL
          /\ ItemOf(uploadQueue', id).status = "pending"
               => ItemOf(uploadQueue', id).progress = 0
     /\ \A id \in Ids(uploadQueue) \cap Ids(uploadQueue') :
          /\ \/ ItemOf(uploadQueue', id).status = ItemOf(uploadQueue, id).status
             \/ <<ItemOf(uploadQueue, id).status, ItemOf(uploadQueue', id).status>>
                  \in SuccessEdges
          /\ ItemOf(uploadQueue', id).status = "completed"
               => ItemOf(uploadQueue', id).progress = 100]_vars

\* the progress that goes with each state
ProgressOfStatus(status) ==
  CASE status = "pending" -> 0
    [] status = "uploading" -> 50
    [] status = "processing" -> 75
    [] status = "completed" -> 100
    [] status = "error" -> 0

\* C18: the progress of every item of the queue is the one that goes with
\* its state: 0 pending, 50 uploading, 75 processing, 100 completed, 0 error.
C18_ProgressFollowsState ==
  \A k \in 1..Len(uploadQueue) :
    uploadQueue[k].progress = ProgressOfStatus(uploadQueue[k].status)

\* the queue shows a completed item, an item in error after a failed upload
\* and an item that is uploading or processing
C18_Witness ==
  /\ \E k \in 1..Len(uploadQueue) :
       uploadQueue[k].status = "completed" /\ uploadQueue[k].progress = 100
  /\ \E k \in 1..Len(uploadQueue) :
       /\ uploadQueue[k].status = "error"
       /\ uploadQueue[k].error = <<"Upload failed">>
       /\ uploadQueue[k].progress = 0
  /\ \E k \in 1..Len(uploadQueue) :
       uploadQueue[k].status \in {"uploading", "processing"}

\* C19 as stated: an item whose progress is 0 is in state pending.
C19_ZeroProgressMeansPending ==
  \A k \in 1..Len(uploadQueue) :
    uploadQueue[k].progress = 0 => uploadQueue[k].status = "pending"

\* C19 amended: an item whose progress is 0 is in state pending or in state
\* error.
C19_ZeroProgressMeansPendingOrError ==
  \A k \in 1..Len(uploadQueue) :
    uploadQueue[k].progress = 0 => uploadQueue[k].status \in {"pending", "error"}

\* the queue shows progress 0 on a pending item, on an item that failed
\* validation and on an item whose upload failed
C19_Witness ==
  /\ \E k \in 1..Len(uploadQueue) :
       uploadQueue[k].status = "pending" /\ uploadQueue[k].progress = 0
  /\ \E k \in 1..Len(uploadQueue) :
       /\ uploadQueue[k].status = "error"
       /\ validateFile(uploadQueue[k].file) # NULL
       /\ uploadQueue[k].progress = 0
  /\ \E k \in 1..Len(uploadQueue) :
       /\ uploadQueue[k].status = "error"
       /\ validateFile(uploadQueue[k].file) = NULL
       /\ uploadQueue[k].progress = 0

\* C20: every file was given to uploadFile at most once, and a file whose
\* call has thrown (its task wrote progress 0 last) has no request
\* outstanding.
C20_NoRetry ==
  \A f \in BagToSet(issued) :
    /\ CopiesIn(f, issued) = 1
    /\ wrote[f.id] = 0 => f.id \notin requests

\* the call for a file has just thrown; the file was sent once and no
\* request for it is outstanding
C20_Witness ==
  /\ lastOp.kind = "reject"
  /\ \E w \in lastOp.writes :
       /\ w.kind = "error"
       /\ w.task \notin requests
       /\ \E f \in BagToSet(issued) : f.id = w.task /\ CopiesIn(f, issued) = 1

\* C21: a submit of n files makes the queue n items longer: the items that
\* were in the queue are unchanged and in place, and the new items are at the
\* end, one per file in the order given, in state error with a message for a
\* file that fails validation, and for a file that passes it pending with no
\* message (or uploading, when its own task has started in the same run).
C21_SubmitAppendsOneItemPerFile ==
  [][lastOp'.kind = "submit" =>
       /\ Len(uploadQueue') = Len(uploadQueue) + (nextId' - nextId)
       /\ \A k \in 1..Len(uploadQueue) : uploadQueue'[k] = uploadQueue[k]
       /\ \A k \in 1..(nextId' - nextId) :
            LET item == uploadQueue'[Len(uploadQueue) + k]
            IN  /\ item.file.id = nextId + k - 1
                /\ IF validateFile(item.file) = NULL
                     THEN /\ item.error = NULL
                          /\ \/ item.status = "pending" /\ item.progress = 0
                             \/ /\ item.status = "uploading"
                                /\ wrote'[item.file.id] = UPLOADING.progress
                     ELSE /\ item.status = "error"
                          /\ item.error # NULL]_vars

\* "File type not supported. Allowed: .csv, .xlsx, .xls, .pdf, .png, .jpg, .jpeg"
UnsupportedTypeMessage ==
  << "File type not supported. Allowed: ",
     ".", "c", "s", "v", ", ", ".", "x", "l", "s", "x", ", ",
     ".", "x", "l", "s", ", ", ".", "p", "d", "f", ", ",
     ".", "p", "n", "g", ", ", ".", "j", "p", "g", ", ",
     ".", "j", "p", "e", "g" >>

\* "File too large. Maximum size: 50 MB"
TooLargeMessage == << "File too large. Maximum size: ", "50", " ", "MB" >>

\* C22: the item of a file whose extension is not on the allow-list carries
\* the unsupported-type message with the list of the allowed extensions, and
\* the item of a file with an allowed extension and a size above the maximum
\* carries the too-large message with the maximum of 50 MB.
C22_ReasonNamesViolatedRule ==
  \A k \in 1..Len(uploadQueue) :
    /\ uploadQueue[k].file.name \in NamesWithOtherExtension
         => uploadQueue[k].error = UnsupportedTypeMessage
    /\ ( /\ uploadQueue[k].file.name \in NamesWithAllowedExtension
         /\ uploadQueue[k].file.size > 50 * 1024 * 1024 )
         => uploadQueue[k].error = TooLargeMessage

\* a file of 60 MiB named b.xlsx has been refused with the too-large message
C22_Witness ==
  /\ Len(uploadQueue) = 1
  /\ uploadQueue[1].file.name = <<"b", ".", "x", "l", "s", "x">>
  /\ uploadQueue[1].file.size = 60 * 1024 * 1024
  /\ uploadQueue[1].status = "error"
  /\ uploadQueue[1].error = TooLargeMessage

\* the file was put on validFiles: it has been given to uploadFile or waits
\* for its turn in a suspended call
Accepted(file) ==
  \/ file \in BagToSet(issued)
  \/ \E c \in calls : \E k \in 1..Len(c.valid) : c.valid[k] = file

\* C23 (under SpecClassify): two items of the queue whose files have the
\* same extension and the same size were classified alike, whatever the
\* queue was when each was submitted: both files were accepted or neither
\* was, and the two items carry the same reason.
C23_SameFileSameClassification ==
  \A j, k \in 1..Len(uploadQueue) :
    ( /\ SplitPop(uploadQueue[j].file.name) = SplitPop(uploadQueue[k].file.name)
      /\ uploadQueue[j].file.size = uploadQueue[k].file.size )
    => /\ uploadQueue[j].error = uploadQueue[k].error
       /\ Accepted(uploadQueue[j].file) <=> Accepted(uploadQueue[k].file)

\* a.csv was accepted on an empty queue and its item is completed; b.csv,
\* of the same size, was accepted after another file had been submitted and
\* its item dismissed
C23_Witness ==
  /\ Len(uploadQueue) = 2
  /\ nextId = 4
  /\ uploadQueue[1].file.id = 1
  /\ uploadQueue[1].file.name = <<"a", ".", "c", "s", "v">>
  /\ uploadQueue[1].status = "completed"
  /\ uploadQueue[2].file.id = 3
  /\ uploadQueue[2].file.name = <<"b", ".", "c", "s", "v">>
  /\ uploadQueue[2].file.size = uploadQueue[1].file.size
  /\ uploadQueue[2].error = NULL /\ uploadQueue[1].error = NULL
  /\ Accepted(uploadQueue[1].file) /\ Accepted(uploadQueue[2].file)

\* the number of times the callback was given the identifier of file f
Callbacks(f) ==
  Cardinality({k \in 1..Len(uploadedFiles) :
                 uploadedFiles[k] = ResponseFileId([id |-> f])})

\* the timers set by the task of file f that have not run yet
PendingTimers(f) == {k \in 1..Len(timers) : timers[k].task = f}

\* C24: the callback was given the identifier of the response of a file
\* exactly once when the call of the file has returned and its timer has
\* run (the task wrote 100 last), whether or not an item was changed; not
\* yet, with exactly one timer set that holds this identifier, when the call
\* has returned and the timer has not run (75); and never when the call is
\* outstanding, has thrown or was never made (50, 0). It was given nothing
\* else.
C24_CallbackOncePerSuccessfulCall ==
  /\ \A f \in FileIds :
       /\ wrote[f] = 100 => Callbacks(f) = 1 /\ PendingTimers(f) = {}
       /\ wrote[f] = 75 =>
            /\ Callbacks(f) = 0
            /\ Cardinality(PendingTimers(f)) = 1
            /\ \A k \in PendingTimers(f) :
                 timers[k].fileId = ResponseFileId([id |-> f])
       /\ wrote[f] \in {0, 50} => Callbacks(f) = 0 /\ PendingTimers(f) = {}
  /\ \A k \in 1..Len(uploadedFiles) :
       \E f \in FileIds : uploadedFiles[k] = ResponseFileId([id |-> f])

\* the timer of a file whose item was dismissed has just run: it changed no
\* item and the callback was given the identifier of that file; the call of
\* another file has thrown and a third file failed validation, and the
\* callback was given nothing for them
C24_Witness ==
  /\ lastOp.kind = "timer"
  /\ \E w \in lastOp.writes :
       /\ w.touched = 0
       /\ w.task \in detached
       /\ ~InQueue(w.task)
       /\ uploadedFiles = <<ResponseFileId([id |-> w.task])>>
  /\ \E g \in BagToSet(issued) : wrote[g.id] = 0 /\ g.id \notin requests
  /\ \E k \in 1..Len(uploadQueue) : validateFile(uploadQueue[k].file) # NULL

\* C25 (under SpecDismissAny): removeFromQueue with an index that is
\* negative or not below the length of the queue, on an empty queue or not,
\* leaves the queue as it is; the transfers and the timers go on.
C25_DismissOutOfRangeIsNoOp ==
  [][( /\ lastOp'.kind = "dismiss"
       /\ lastOp'.index < 0 \/ lastOp'.index >= Len(uploadQueue) )
     => /\ uploadQueue' = uploadQueue
        /\ requests' = requests
        /\ timers' = timers]_vars

\* removeFromQueue was just called with an index past the end of a queue
\* that holds an item whose upload is outstanding, and the item is there
C25_Witness ==
  /\ lastOp.kind = "dismiss"
  /\ lastOp.index > Len(uploadQueue)
  /\ \E k \in 1..Len(uploadQueue) : uploadQueue[k].file.id \in requests

\* the extension of a name of ExtensionCases
ExpectedExtension(name) == (CHOOSE c \in ExtensionCases : c[1] = name)[2]

\* csv, xlsx, xls, pdf, png, jpg, jpeg
AllowedExtensionTexts ==
  { <<"c", "s", "v">>, <<"x", "l", "s", "x">>, <<"x", "l", "s">>,
    <<"p", "d", "f">>, <<"p", "n", "g">>, <<"j", "p", "g">>,
    <<"j", "p", "e", "g">> }

\* C26 (under SpecExtension): a file is classified by the text after the
\* last "." of its name in lower case, by its whole name when it holds no
\* ".". When this text is not an allowed extension the item carries the
\* unsupported-type message, whatever the size of the file; when it is one
\* and the file is larger than the maximum, the too-large message; otherwise
\* the file is accepted.
C26_ExtensionAfterLastDotBeforeSize ==
  \A k \in 1..Len(uploadQueue) :
    LET item == uploadQueue[k]
        allowed == ExpectedExtension(item.file.name) \in AllowedExtensionTexts
    IN  /\ ~allowed => item.error = UnsupportedTypeMessage /\ ~Accepted(item.file)
        /\ (allowed /\ item.file.size > 50 * 1024 * 1024)
             => item.error = TooLargeMessage /\ ~Accepted(item.file)
        /\ (allowed /\ item.file.size <= 50 * 1024 * 1024)
             => item.error = NULL /\ Accepted(item.file)

\* a file named csv was accepted and is uploading, and a file of 60 MiB
\* named a.csv.exe was refused with the unsupported-type message
C26_Witness ==
  /\ Len(uploadQueue) = 2
  /\ uploadQueue[1].file.name = <<"c", "s", "v">>
  /\ uploadQueue[1].error = NULL
  /\ uploadQueue[1].status = "uploading"
  /\ uploadQueue[1].file.id \in requests
  /\ uploadQueue[2].file.name = <<"a", ".", "c", "s", "v", ".", "e", "x", "e">>
  /\ uploadQueue[2].file.size = 60 * 1024 * 1024
  /\ uploadQueue[2].status = "error"
  /\ uploadQueue[2].error = UnsupportedTypeMessage

====
